---- MODULE Spec2Model ----
(***************************************************************************)
(* Model of whisper_site.py (the pydub/OpenAI version, lines 180-346):     *)
(* decouper_audio, transcrire_audio, charger_historique,                   *)
(* sauvegarder_historique and the "Lancer la transcription" button handler.*)
(*                                                                         *)
(* Sizes are in bytes and durations in integer milliseconds, as pydub      *)
(* reports them.  Texts are sequences of characters.                       *)
(***************************************************************************)
EXTENDS Integers, Sequences, FiniteSets, TLC

VARIABLES
    pc,            \* position of the script: see PcValues
    runs,          \* number of uploads so far (also the clock datetime.now())
    size,          \* path.stat().st_size of the uploaded file, in bytes
    duree_ms,      \* len(audio): duration of the uploaded file, in ms
    i,             \* loop variable of decouper_audio
    exports,       \* the segment.export calls performed, in order
    segments,      \* the list built / returned by decouper_audio
    k,             \* loop variable of transcrire_audio (1-based, enumerate(.., 1))
    calls,         \* events at the transcription capability, in order
    texte_total,   \* the accumulator of transcrire_audio
    texte,         \* <<>> while transcrire_audio has not returned, else <<its result>>
    error,         \* the exception that ended the script run, if any
    outputs,       \* files present in OUTPUT_DIR (other than the history file)
    historique     \* HISTORIQUE_FILE: [existe, data]

vars == <<pc, runs, size, duree_ms, i, exports, segments, k, calls,
          texte_total, texte, error, outputs, historique>>

----------------------------------------------------------------------------
(* Bounds of the model *)

MaxChunks == 2      \* sizes range up to MaxChunks * Threshold + 1 bytes
MaxDur == 6         \* durations range over 0 .. MaxDur ms
MaxRuns == 2        \* number of uploads in one behaviour

----------------------------------------------------------------------------
(* Program constants and input domains *)

\* size_mb <= 25 with size_mb = st_size / (1024 * 1024)
Threshold == 25 * 1024 * 1024

NL == "\n"
SP == " "

\* str.strip() with no argument removes leading and trailing whitespace
IsSpace(c) == c \in {SP, NL}

\* Sample file sizes: around every multiple of the threshold
Sizes == { s \in { q * Threshold + r : q \in 0..MaxChunks, r \in {-1, 0, 1} } : s >= 0 }

Durations == 0..MaxDur

\* Sample plain-text responses of the transcription capability
Responses == { <<"H">>, <<"w", NL>>, <<SP, "w">>, <<>> }

\* Sample causes of a failure raised by a collaborator
Causes == { "timeout", "rejected" }

\* The exceptions of this script carry no segment index
NoIndex == 0

NoError == [kind |-> "none", cause |-> "none", index |-> NoIndex]

PcValues == { "idle", "uploaded", "from_file", "export", "transcrire",
              "calling", "returned", "shown", "error" }

----------------------------------------------------------------------------
(* decouper_audio: pure parts *)

SansDecoupageStrict(sz) == sz < Threshold

\* if size_mb <= 25: return [path]
SansDecoupage(sz) == sz <= Threshold

NbSegmentsFloor(sz) == sz \div Threshold

\* nb_segments = math.ceil(size_mb / 25); the float quotient is exact enough
\* that the ceiling equals the integer ceiling of st_size / Threshold
NbSegments(sz) == (sz + Threshold - 1) \div Threshold

\* segment_duree = duree_ms // nb_segments
SegmentDuree(d, n) == d \div n

\* start = i * segment_duree
SegStart(idx, sd) == idx * sd

SegEndUniform(idx, n, sd, d) == (idx + 1) * sd

\* end = (i + 1) * segment_duree if i < nb_segments - 1 else duree_ms
SegEnd(idx, n, sd, d) == IF idx < n - 1 THEN (idx + 1) * sd ELSE d

\* the single element of [path]: the uploaded file itself, whole
Original(d) == [part |-> 0, start |-> 0, end |-> d]

\* segment_path = ..._part{i+1}.mp3 holding audio[start:end]
Part(idx, n, sd, d) ==
    [part |-> idx + 1, start |-> SegStart(idx, sd), end |-> SegEnd(idx, n, sd, d)]

RangeEpuiseTot(idx, n) == idx >= n - 1

\* for i in range(nb_segments): the loop is over when i reaches nb_segments
RangeEpuise(idx, n) == idx >= n

----------------------------------------------------------------------------
(* transcrire_audio: pure parts *)

RECURSIVE LStrip(_)
LStrip(s) == IF s # <<>> /\ IsSpace(Head(s)) THEN LStrip(Tail(s)) ELSE s

RECURSIVE RStrip(_)
RStrip(s) ==
    IF s # <<>> /\ IsSpace(s[Len(s)]) THEN RStrip(SubSeq(s, 1, Len(s) - 1)) ELSE s

\* texte_total.strip()
Strip(s) == RStrip(LStrip(s))

AccumulerDevant(tt, res) == res \o <<NL>> \o tt

\* texte_total += res + "\n"
Accumuler(tt, res) == tt \o res \o <<NL>>

----------------------------------------------------------------------------
(* History file *)

ChargerVide(h) == <<>>

\* charger_historique: the list in the file, [] when the file does not exist
charger_historique(h) == IF h.existe THEN h.data ELSE <<>>

\* sauvegarder_historique: the file is rewritten with the list
sauvegarder_historique(data) == [existe |-> TRUE, data |-> data]

\* the dictionary appended by the handler; datetime.now() is the run number
Entree(now) == [nom |-> "audio.mp3", date |-> now, fichier_txt |-> <<now, "txt">>]

\* an entry left by an earlier session
Ancienne == [nom |-> "old.mp3", date |-> 0, fichier_txt |-> <<0, "txt">>]

----------------------------------------------------------------------------
(* State machine *)

Init ==
    /\ pc = "idle"
    /\ runs = 0
    /\ size = 0
    /\ duree_ms = 0
    /\ i = 0
    /\ exports = <<>>
    /\ segments = <<>>
    /\ k = 1
    /\ calls = <<>>
    /\ texte_total = <<>>
    /\ texte = <<>>
    /\ error = NoError
    /\ outputs = {}
    /\ historique \in { [existe |-> FALSE, data |-> <<>>],
                        [existe |-> TRUE, data |-> <<Ancienne>>] }

\* st.file_uploader: a file is chosen and written to temp_path; the script
\* reruns from the top, so nothing of an earlier run survives but the files
Upload ==
    /\ pc \in {"idle", "shown", "error"}
    /\ runs < MaxRuns
    /\ \E s \in Sizes, d \in Durations :
          /\ size' = s
          /\ duree_ms' = d
    /\ runs' = runs + 1
    /\ pc' = "uploaded"
    /\ i' = 0
    /\ exports' = <<>>
    /\ segments' = <<>>
    /\ k' = 1
    /\ calls' = <<>>
    /\ texte_total' = <<>>
    /\ texte' = <<>>
    /\ error' = NoError
    /\ UNCHANGED <<outputs, historique>>

\* button pressed: transcrire_audio -> decouper_audio, up to the size test
Lancer ==
    /\ pc = "uploaded"
    /\ IF SansDecoupage(size)
         THEN /\ segments' = <<Original(duree_ms)>>
              /\ pc' = "transcrire"
         ELSE /\ segments' = <<>>
              /\ pc' = "from_file"
    /\ UNCHANGED <<runs, size, duree_ms, i, exports, k, calls, texte_total,
                   texte, error, outputs, historique>>

\* audio = AudioSegment.from_file(path) succeeds
FromFile ==
    /\ pc = "from_file"
    /\ i' = 0
    /\ pc' = "export"
    /\ UNCHANGED <<runs, size, duree_ms, exports, segments, k, calls,
                   texte_total, texte, error, outputs, historique>>

\* audio = AudioSegment.from_file(path) raises
FromFileFails ==
    /\ pc = "from_file"
    /\ \E c \in Causes : error' = [kind |-> "decode", cause |-> c, index |-> NoIndex]
    /\ pc' = "error"
    /\ UNCHANGED <<runs, size, duree_ms, i, exports, segments, k, calls,
                   texte_total, texte, outputs, historique>>

\* one iteration of the loop of decouper_audio whose export succeeds
ExportSegment ==
    /\ pc = "export"
    /\ LET n == NbSegments(size)
           sd == SegmentDuree(duree_ms, n)
           seg == Part(i, n, sd, duree_ms)
       IN /\ exports' = Append(exports, seg)
          /\ segments' = Append(segments, seg)
          /\ i' = i + 1
          /\ pc' = IF RangeEpuise(i + 1, n) THEN "transcrire" ELSE "export"
    /\ UNCHANGED <<runs, size, duree_ms, k, calls, texte_total, texte, error,
                   outputs, historique>>

\* one iteration of the loop of decouper_audio whose export raises
ExportFails ==
    /\ pc = "export"
    /\ \E c \in Causes : error' = [kind |-> "export", cause |-> c, index |-> NoIndex]
    /\ pc' = "error"
    /\ UNCHANGED <<runs, size, duree_ms, i, exports, segments, k, calls,
                   texte_total, texte, outputs, historique>>

\* client.audio.transcriptions.create is called for segment k
IssueCall ==
    /\ pc = "transcrire"
    /\ k <= Len(segments)
    /\ calls' = Append(calls, [op |-> "issue", seg |-> k, file |-> segments[k], res |-> <<>>])
    /\ pc' = "calling"
    /\ UNCHANGED <<runs, size, duree_ms, i, exports, segments, k, texte_total,
                   texte, error, outputs, historique>>

\* the call returns a text
CallReturns ==
    /\ pc = "calling"
    /\ \E res \in Responses :
          /\ calls' = Append(calls, [op |-> "return", seg |-> k, file |-> segments[k], res |-> res])
          /\ texte_total' = Accumuler(texte_total, res)
    /\ k' = k + 1
    /\ pc' = "transcrire"
    /\ UNCHANGED <<runs, size, duree_ms, i, exports, segments, texte, error,
                   outputs, historique>>

\* the call raises: the exception of the client leaves transcrire_audio and
\* the handler as it is
CallFails ==
    /\ pc = "calling"
    /\ \E c \in Causes :
          /\ calls' = Append(calls, [op |-> "fail", seg |-> k, file |-> segments[k], res |-> <<>>])
          /\ error' = [kind |-> "api", cause |-> c, index |-> NoIndex]
    /\ pc' = "error"
    /\ UNCHANGED <<runs, size, duree_ms, i, exports, segments, k, texte_total,
                   texte, outputs, historique>>

\* return texte_total.strip()
Return ==
    /\ pc = "transcrire"
    /\ k > Len(segments)
    /\ texte' = <<Strip(texte_total)>>
    /\ pc' = "returned"
    /\ UNCHANGED <<runs, size, duree_ms, i, exports, segments, k, calls,
                   texte_total, error, outputs, historique>>

\* the rest of the handler: the three files, then the history
Enregistrer ==
    /\ pc = "returned"
    /\ outputs' = outputs \cup { <<runs, "txt">>, <<runs, "docx">>, <<runs, "pdf">> }
    /\ historique' = sauvegarder_historique(
                        Append(charger_historique(historique), Entree(runs)))
    /\ pc' = "shown"
    /\ UNCHANGED <<runs, size, duree_ms, i, exports, segments, k, calls,
                   texte_total, texte, error>>

\* save_docx raises after the .txt file was written
EnregistrerFails ==
    /\ pc = "returned"
    /\ outputs' = outputs \cup { <<runs, "txt">> }
    /\ \E c \in Causes : error' = [kind |-> "save", cause |-> c, index |-> NoIndex]
    /\ pc' = "error"
    /\ UNCHANGED <<runs, size, duree_ms, i, exports, segments, k, calls,
                   texte_total, texte, historique>>

Next ==
    \/ Upload
    \/ Lancer
    \/ FromFile
    \/ FromFileFails
    \/ ExportSegment
    \/ ExportFails
    \/ IssueCall
    \/ CallReturns
    \/ CallFails
    \/ Return
    \/ Enregistrer
    \/ EnregistrerFails

Spec == Init /\ [][Next]_vars

TypeOK ==
    /\ pc \in PcValues
    /\ runs \in 0..MaxRuns
    /\ size \in Sizes
    /\ duree_ms \in Durations
    /\ i \in 0..(MaxChunks + 1)
    /\ k \in 1..(MaxChunks + 2)
    /\ Len(texte) <= 1
    /\ historique.existe \in BOOLEAN

----------------------------------------------------------------------------
(* Vocabulary of the properties *)

\* decouper_audio has returned its list in the current run
DecoupageFait ==
    \/ pc \in {"transcrire", "calling", "returned", "shown"}
    \/ pc = "error" /\ error.kind \in {"api", "save"}

\* transcrire_audio has returned its text in the current run
TranscriptionFaite == texte # <<>>

\* ceil(a / b) for a >= 1, b >= 1, without division
Ceil(a, b) == CHOOSE n \in 1..(MaxChunks + 3) : (n - 1) * b < a /\ a <= n * b

\* the texts returned by the capability so far, in the order of the log
RECURSIVE Fragments(_)
Fragments(log) ==
    IF log = <<>> THEN <<>>
    ELSE IF Head(log).op = "return"
         THEN <<Head(log).res>> \o Fragments(Tail(log))
         ELSE Fragments(Tail(log))

\* every text followed by a newline, one after the other
RECURSIVE ConcatLines(_)
ConcatLines(fs) ==
    IF fs = <<>> THEN <<>> ELSE Head(fs) \o <<NL>> \o ConcatLines(Tail(fs))

\* the texts, each trimmed, with one newline between two consecutive ones
RECURSIVE JoinTrimmed(_)
JoinTrimmed(fs) ==
    IF fs = <<>> THEN <<>>
    ELSE IF Len(fs) = 1 THEN Strip(Head(fs))
    ELSE Strip(Head(fs)) \o <<NL>> \o JoinTrimmed(Tail(fs))

\* the content of the history file read as a list
Liste(h) == IF h.existe THEN h.data ELSE <<>>

----------------------------------------------------------------------------
(* Properties *)

\* C1: an asset of at most 25 MiB is never exported, and decouper_audio
\* returns exactly one segment, the original asset over [0, duree_ms).
C1_SmallAssetUnsplit ==
    (pc # "idle" /\ size <= 26214400) =>
        /\ exports = <<>>
        /\ DecoupageFait =>
              /\ Len(segments) = 1
              /\ segments[1] = [part |-> 0, start |-> 0, end |-> duree_ms]

C1_Witness ==
    /\ pc = "calling"
    /\ size = 26214400
    /\ duree_ms > 0
    /\ segments = <<[part |-> 0, start |-> 0, end |-> duree_ms]>>

\* C2: for an asset larger than the threshold, decouper_audio returns
\* ceil(size / threshold) segments.
C2_SegmentCount ==
    (DecoupageFait /\ size > 26214400) => Len(segments) = Ceil(size, 26214400)

C2_Witness ==
    /\ DecoupageFait
    /\ size = 2 * 26214400 + 1
    /\ Len(segments) = 3

\* C3: for an asset larger than the threshold, with n segments and
\* d = duree_ms \div n, segment i spans [i*d, (i+1)*d) for i < n-1 and the
\* last one spans [(n-1)*d, duree_ms]; the ranges abut from 0 to duree_ms.
C3_SegmentRanges ==
    (DecoupageFait /\ size > 26214400) =>
        LET n == Len(segments)
            d == duree_ms \div n
        IN /\ \A j \in 1..n :
                 /\ segments[j].start = (j - 1) * d
                 /\ segments[j].end = IF j < n THEN j * d ELSE duree_ms
                 /\ segments[j].start <= segments[j].end
           /\ segments[1].start = 0
           /\ \A j \in 1..(n - 1) : segments[j].end = segments[j + 1].start
           /\ segments[n].end = duree_ms

C3_Witness ==
    /\ DecoupageFait
    /\ Len(segments) = 3
    /\ duree_ms = 5
    /\ segments[3].start = 2
    /\ segments[3].end = 5

\* C4: every segment submitted to the capability has a size (the asset's
\* size times the segment's share of the duration) of at most the threshold.
C4_SubmittedWithinThreshold ==
    \A j \in 1..Len(calls) :
        calls[j].op = "issue" =>
            IF calls[j].file.part = 0
            THEN size <= 26214400
            ELSE size * (calls[j].file.end - calls[j].file.start)
                    <= 26214400 * duree_ms

\* C5: an asset of duration 0 yields exactly one zero-length segment,
\* whatever its size.
C5_ZeroDurationSingle ==
    (DecoupageFait /\ duree_ms = 0) =>
        /\ Len(segments) = 1
        /\ segments[1].start = segments[1].end

\* C6: the calls are issued one at a time in ascending segment index, each
\* after the previous one returned; a run without failure makes exactly one
\* call per segment, and the accumulated text holds the result of call k as
\* its k-th fragment.
C6_SequentialCalls ==
    /\ \A j \in 1..Len(calls) :
          /\ calls[j].seg = (j + 1) \div 2
          /\ calls[j].seg <= Len(segments)
          /\ calls[j].file = segments[calls[j].seg]
          /\ (j % 2 = 1) => calls[j].op = "issue"
          /\ (j % 2 = 0) => calls[j].op \in {"return", "fail"}
          /\ (j < Len(calls)) => calls[j].op # "fail"
    /\ Len(Fragments(calls)) <= Len(segments)
    /\ texte_total = ConcatLines(Fragments(calls))
    /\ TranscriptionFaite =>
          /\ Len(calls) = 2 * Len(segments)
          /\ Len(Fragments(calls)) = Len(segments)
          /\ texte[1] = Strip(ConcatLines(Fragments(calls)))

C6_Witness ==
    /\ TranscriptionFaite
    /\ Len(segments) = 3
    /\ Fragments(calls) = << <<"H">>, <<SP, "w">>, <<"w", NL>> >>

\* C7: the returned transcript is the fragments in order, each trimmed,
\* joined by exactly one newline, the whole trimmed.
C7_TrimmedJoin ==
    TranscriptionFaite => texte[1] = Strip(JoinTrimmed(Fragments(calls)))

\* C8: when the call for segment k fails, the run ends with a failure that
\* carries k and the cause, no transcript is returned and no later call is
\* issued.
C8_FailureCarriesIndex ==
    (pc = "error" /\ error.kind = "api") =>
        /\ calls[Len(calls)].op = "fail"
        /\ error.index = calls[Len(calls)].seg
        /\ error.cause \in Causes
        /\ texte = <<>>

\* C9: no transcription call is issued before every segment of the plan is
\* exported, and a failed export ends the run with no call issued and no
\* transcript returned.
C9_SegmentationFirst ==
    /\ (calls # <<>> /\ size > 26214400) =>
          /\ Len(exports) = Ceil(size, 26214400)
          /\ exports = segments
    /\ (pc = "export") => calls = <<>>
    /\ (pc = "error" /\ error.kind \in {"export", "decode"}) =>
          /\ calls = <<>>
          /\ texte = <<>>

C9_Witness ==
    /\ pc = "error"
    /\ error.kind = "export"
    /\ Len(exports) = 2
    /\ size = 2 * 26214400 + 1

\* C10: only the end of a successful transcription writes output files or
\* the history, so a failed segmentation or transcription leaves both
\* untouched; a successful action rewrites the history as the previous
\* list followed by exactly one new entry.
C10_HistoryFrame ==
    [][ /\ (pc # "returned") => (outputs' = outputs /\ historique' = historique)
        /\ (pc' = "error" /\ error'.kind \in {"decode", "export", "api"}) =>
              (outputs' = outputs /\ historique' = historique)
        /\ (pc = "returned" /\ pc' = "shown") =>
              /\ historique'.existe
              /\ Len(historique'.data) = Len(Liste(historique)) + 1
              /\ SubSeq(historique'.data, 1, Len(Liste(historique))) = Liste(historique)
              /\ historique'.data[Len(historique'.data)].date = runs
      ]_vars

C10_Witness ==
    /\ pc = "shown"
    /\ Len(historique.data) = 3
    /\ historique.data[1] = Ancienne
    /\ historique.data[3].date = 2

====
